---- MODULE Spec2Model ----
(***************************************************************************)
(* Model of the /api/llm route handler (src/unnamed/part_000): one inbound *)
(* POST is validated, dispatched to one of five provider adapters, which   *)
(* issue one outbound fetch and turn the provider's reply into {output} or *)
(* into a thrown error that POST surfaces as {error} with status 500.      *)
(* The page (src/unnamed/part_001) is modelled beside it: its state, its   *)
(* handlers, and the requests it has sent to /api/llm with their answers.  *)
(*                                                                         *)
(* JavaScript values are tagged records [t |-> type, ...].  A string is a  *)
(* sequence of tokens; the tokens " " and "\n" are white space, every      *)
(* other token stands for a run of non-blank characters.                   *)
(***************************************************************************)
EXTENDS Integers, Sequences, FiniteSets

\* the route handler's invocation (src/unnamed/part_000)
VARIABLES env, pc, req, args, calls, reply, res

\* the page component's state (src/unnamed/part_001); requests lists the
\* requests the page has sent, each with the values its closure captured and
\* how far it has got; lastEvent tells a CLI submit that returned early from any other step
VARIABLES pageProvider, pageModel, pagePrompt, loading, output, cliHistory,
          cliInput, reactPreviewReady, isPreviewActive, error, requests, lastEvent

routeVars == <<env, pc, req, args, calls, reply, res>>

pageVars ==
    <<pageProvider, pageModel, pagePrompt, loading, output, cliHistory,
      cliInput, reactPreviewReady, isPreviewActive, error, requests, lastEvent>>

vars == <<routeVars, pageVars>>

\* ---------------------------------------------------------------- bounds
MaxLen == 2          \* longest prompt, in tokens
MaxItems == 2        \* most choices / content blocks / parts in a reply
MaxRequests == 2     \* most requests the page sends

\* ------------------------------------------------------------ JS values
Undef == [t |-> "undefined"]
Null == [t |-> "null"]
Str(s) == [t |-> "string", v |-> s]
Num(s) == [t |-> "number", v |-> s]
Arr(s) == [t |-> "array", v |-> s]

IsStr(x) == x.t = "string"
Nullish(x) == x.t \in {"undefined", "null"}

\* !x
Falsy(x) ==
    \/ Nullish(x)
    \/ x.t = "string" /\ x.v = <<>>
    \/ x.t = "number" /\ x.v = <<"0">>

\* a ?? b
Coalesce(a, b) == IF Nullish(a) THEN b ELSE a

\* a || b
OrElse(a, b) == IF Falsy(a) THEN b ELSE a

\* String(x), as a template literal or new Error(x) converts x
StringOf(x) ==
    CASE x.t = "string" -> x.v
      [] x.t = "number" -> x.v
      [] x.t = "undefined" -> <<"undefined">>
      [] x.t = "null" -> <<"null">>
      [] OTHER -> <<"[object Object]">>

White == {" ", "\n"}

RECURSIVE TrimStart(_)
TrimStart(s) ==
    IF s # <<>> /\ Head(s) \in White THEN TrimStart(Tail(s)) ELSE s

RECURSIVE TrimEnd(_)
TrimEnd(s) ==
    IF s # <<>> /\ s[Len(s)] \in White
    THEN TrimEnd(SubSeq(s, 1, Len(s) - 1))
    ELSE s

\* String.prototype.trim
Trim(s) == TrimEnd(TrimStart(s))

\* --------------------------------------------------- program constants
ProviderKey == {"openai", "gemini", "anthropic", "deepseek", "openrouter"}

\* systemPrompts[mode]: the two canned templates, undefined for any other key
ComposerTemplate == <<"You are an elite full-stack architect ...">>
CliTemplate == <<"You are an interactive agentic CLI ...">>

systemPrompts(mode) ==
    IF mode = Str(<<"composer">>) THEN Str(ComposerTemplate)
    ELSE IF mode = Str(<<"cli">>) THEN Str(CliTemplate)
    ELSE Undef

\* providerBaselines[provider]: undefined for any other key
providerBaselines(provider) ==
    IF provider = Str(<<"openai">>) THEN Str(<<"gpt-4.1-mini">>)
    ELSE IF provider = Str(<<"gemini">>) THEN Str(<<"gemini-1.5-pro-latest">>)
    ELSE IF provider = Str(<<"anthropic">>) THEN Str(<<"claude-3-5-sonnet-20240620">>)
    ELSE IF provider = Str(<<"deepseek">>) THEN Str(<<"deepseek-chat">>)
    ELSE IF provider = Str(<<"openrouter">>) THEN Str(<<"google/gemini-flash-1.5">>)
    ELSE Undef

\* the warning-sign emoji of the source is written (!) here
Placeholder == <<"(!) Provider returned an empty response.">>

\* ------------------------------------------------- completions of a step
\* A synchronous stretch of code ends by returning an HTTP response, by
\* throwing, by returning a value, or by suspending on an outbound fetch.
Respond(status, body) == [k |-> "response", status |-> status, body |-> body]
Throw(msg) == [k |-> "throw", msg |-> msg]
Return(value) == [k |-> "return", v |-> value]
Fetch(call) == [k |-> "fetch", call |-> call]

\* errorResponse(message, status = 400)
errorResponse(message, status) == Respond(status, [error |-> Str(message)])

\* normalizeMarkdown(content): (content ?? "").trim() || placeholder.
\* .trim exists on strings only; on any other non-nullish value the call throws.
normalizeMarkdown(content) ==
    LET c == Coalesce(content, Str(<<>>)) IN
    IF ~IsStr(c) THEN Throw(<<"TypeError: (content ?? \"\").trim is not a function">>)
    ELSE Return(OrElse(Str(Trim(c.v)), Str(Placeholder)))

\* -------------------------------------------------- provider adapters
\* Each adapter runs in two stretches: up to its fetch (key check, request
\* construction), and from the fetch's resolution (parse, ok check, extraction).
\* A provider reply is [ok, json, error, items]: json is "invalid" (the body
\* does not parse), "null" or "object"; error is the body's `error` member;
\* items is the body's list of choices (message.content of each), content
\* blocks (text of each) or parts of the first candidate (text of each).

\* process.env.<KEY> is a string or undefined; "" counts as not configured
KeySet(e, name) == ~Falsy(e[name])

\* await response.json(), then the !response.ok branch
ParseReply(r, generic) ==
    IF r.json = "invalid"
    THEN Throw(<<"SyntaxError: Unexpected token in JSON">>)
    ELSE IF ~r.ok
    THEN LET err == IF r.json = "null" THEN Undef ELSE r.error
             msg == IF Nullish(err) \/ err.t # "object" THEN Undef ELSE err.message
         IN Throw(StringOf(Coalesce(msg, Str(generic))))
    ELSE Return(IF r.json = "null" THEN Undef ELSE r.items)

\* variant: the last choice or block is read instead of the first
FirstItem_last(items) ==
    IF Nullish(items) \/ items.v = <<>> THEN Undef ELSE items.v[Len(items.v)]

\* data?.choices?.[0]?.message?.content, data?.content?.[0]?.text
FirstItem(items) ==
    IF Nullish(items) \/ items.v = <<>> THEN Undef ELSE items.v[1]

\* messages: [{role: "system", content: systemPrompt}, {role: "user", content: prompt}]
ChatMessages(a) ==
    <<[role |-> "system", content |-> a.systemPrompt],
      [role |-> "user", content |-> a.prompt]>>

callOpenAI_send(a, e) ==
    IF ~KeySet(e, "OPENAI_API_KEY")
    THEN Throw(<<"OPENAI_API_KEY is not configured.">>)
    ELSE Fetch([url |-> <<"https://api.openai.com/v1/chat/completions">>,
                model |-> a.model, system |-> Undef, messages |-> ChatMessages(a)])

callOpenAI_recv(r) ==
    LET d == ParseReply(r, <<"OpenAI request failed.">>) IN
    IF d.k = "throw" THEN d ELSE Return(FirstItem(d.v))

\* variant: the adapter copied from callOpenAI keeps its key name
callDeepSeek_send_openaiKey(a, e) ==
    IF ~KeySet(e, "OPENAI_API_KEY")
    THEN Throw(<<"OPENAI_API_KEY is not configured.">>)
    ELSE Fetch([url |-> <<"https://api.deepseek.com/v1/chat/completions">>,
                model |-> a.model, system |-> Undef, messages |-> ChatMessages(a)])

callDeepSeek_send(a, e) ==
    IF ~KeySet(e, "DEEPSEEK_API_KEY")
    THEN Throw(<<"DEEPSEEK_API_KEY is not configured.">>)
    ELSE Fetch([url |-> <<"https://api.deepseek.com/v1/chat/completions">>,
                model |-> a.model, system |-> Undef, messages |-> ChatMessages(a)])

callDeepSeek_recv(r) ==
    LET d == ParseReply(r, <<"DeepSeek request failed.">>) IN
    IF d.k = "throw" THEN d ELSE Return(FirstItem(d.v))

callOpenRouter_send(a, e) ==
    IF ~KeySet(e, "OPENROUTER_API_KEY")
    THEN Throw(<<"OPENROUTER_API_KEY is not configured.">>)
    ELSE Fetch([url |-> <<"https://openrouter.ai/api/v1/chat/completions">>,
                model |-> a.model, system |-> Undef, messages |-> ChatMessages(a)])

callOpenRouter_recv(r) ==
    LET d == ParseReply(r, <<"OpenRouter request failed.">>) IN
    IF d.k = "throw" THEN d ELSE Return(FirstItem(d.v))

\* the model is part of the URL; system prompt and prompt share one text part
callGemini_send(a, e) ==
    IF ~KeySet(e, "GOOGLE_GEMINI_API_KEY")
    THEN Throw(<<"GOOGLE_GEMINI_API_KEY is not configured.">>)
    ELSE Fetch([url |-> <<"https://generativelanguage.googleapis.com/v1beta/models/">>
                        \o StringOf(a.model) \o <<":generateContent">>,
                model |-> a.model, system |-> Undef,
                messages |-> <<[role |-> "user",
                                content |-> Str(StringOf(a.systemPrompt)
                                                \o <<"\n\nUser Prompt:\n">>
                                                \o StringOf(a.prompt))]>>])

\* Array.prototype.join("\n") over part?.text ?? ""
RECURSIVE JoinParts(_)
JoinParts(parts) ==
    IF parts = <<>> THEN <<>>
    ELSE LET h == StringOf(Coalesce(Head(parts), Str(<<>>))) IN
         IF Len(parts) = 1 THEN h ELSE h \o <<"\n">> \o JoinParts(Tail(parts))

callGemini_recv(r) ==
    LET d == ParseReply(r, <<"Gemini request failed.">>) IN
    IF d.k = "throw" THEN d
    ELSE IF Nullish(d.v) THEN Return(Undef)
    ELSE Return(Str(JoinParts(d.v.v)))

callAnthropic_send(a, e) ==
    IF ~KeySet(e, "ANTHROPIC_API_KEY")
    THEN Throw(<<"ANTHROPIC_API_KEY is not configured.">>)
    ELSE Fetch([url |-> <<"https://api.anthropic.com/v1/messages">>,
                model |-> a.model, system |-> a.systemPrompt,
                messages |-> <<[role |-> "user", content |-> a.prompt]>>])

\* JSON.stringify of one content block {text: v}: an undefined member is dropped
StringifyBlock(v) ==
    CASE v.t = "undefined" -> <<"{}">>
      [] v.t = "null" -> <<"{\"text\":null}">>
      [] v.t = "number" -> <<"{\"text\":">> \o v.v \o <<"}">>
      [] OTHER -> <<"{\"text\":\"">> \o v.v \o <<"\"}">>

RECURSIVE StringifyBlocks(_)
StringifyBlocks(blocks) ==
    IF blocks = <<>> THEN <<>>
    ELSE IF Len(blocks) = 1 THEN StringifyBlock(Head(blocks))
    ELSE StringifyBlock(Head(blocks)) \o <<",">> \o StringifyBlocks(Tail(blocks))

\* JSON.stringify(data?.content ?? {})
StringifyContent(items) ==
    IF Nullish(items) THEN <<"{}">>
    ELSE <<"[">> \o StringifyBlocks(items.v) \o <<"]">>

callAnthropic_recv(r) ==
    LET d == ParseReply(r, <<"Anthropic request failed.">>) IN
    IF d.k = "throw" THEN d
    ELSE LET content == FirstItem(d.v) IN
         Return(IF IsStr(content) THEN content ELSE Str(StringifyContent(d.v)))

\* ------------------------------------------------------------ the handler
\* body.<name>: undefined on a JSON primitive or array, the member on an object
Member(body, name) == IF body.t = "object" THEN body[name] ELSE Undef

\* an exception thrown outside POST's try block leaves the handler
Escape(msg) == [k |-> "escape", msg |-> msg]

\* variant: const prompt = body.prompt
TrimmedPrompt_untrimmed(body) == Member(body, "prompt")

\* const prompt = body.prompt?.trim()
TrimmedPrompt(body) ==
    LET raw == Member(body, "prompt") IN
    IF Nullish(raw) THEN Undef ELSE Str(Trim(raw.v))

\* variant: if (provider === undefined)
ProviderMissing_undefinedOnly(body) == Member(body, "provider") = Undef

\* if (!provider)
ProviderMissing(body) == Falsy(Member(body, "provider"))

\* if (!prompt)
PromptMissing(body) == Falsy(TrimmedPrompt(body))

\* variant: const model = body.model ?? providerBaselines[provider]
ResolveModel_nullish(body) ==
    Coalesce(Member(body, "model"), providerBaselines(Member(body, "provider")))

\* const model = body.model || providerBaselines[provider]
ResolveModel(body) ==
    OrElse(Member(body, "model"), providerBaselines(Member(body, "provider")))

\* const mode = body.mode ?? "composer"; const systemPrompt = systemPrompts[mode]
ResolveSystemPrompt(body) ==
    systemPrompts(Coalesce(Member(body, "mode"), Str(<<"composer">>)))

\* the arguments POST hands to dispatchToProvider
DispatchArgs(body) ==
    [provider |-> Member(body, "provider"),
     model |-> ResolveModel(body),
     prompt |-> TrimmedPrompt(body),
     systemPrompt |-> ResolveSystemPrompt(body)]

\* variant: the message does not name the provider
UnsupportedProvider_unnamed(provider) == Throw(<<"Unsupported provider">>)

\* default: throw new Error(`Unsupported provider: ${provider}`)
UnsupportedProvider(provider) ==
    Throw(<<"Unsupported provider: ">> \o StringOf(provider))

\* dispatchToProvider, up to the adapter's fetch
dispatchToProvider_send(a, e) ==
    CASE a.provider = Str(<<"openai">>) -> callOpenAI_send(a, e)
      [] a.provider = Str(<<"gemini">>) -> callGemini_send(a, e)
      [] a.provider = Str(<<"anthropic">>) -> callAnthropic_send(a, e)
      [] a.provider = Str(<<"deepseek">>) -> callDeepSeek_send(a, e)
      [] a.provider = Str(<<"openrouter">>) -> callOpenRouter_send(a, e)
      [] OTHER -> UnsupportedProvider(a.provider)

\* dispatchToProvider, from the resolution of the adapter's fetch
dispatchToProvider_recv(a, r) ==
    CASE a.provider = Str(<<"openai">>) -> callOpenAI_recv(r)
      [] a.provider = Str(<<"gemini">>) -> callGemini_recv(r)
      [] a.provider = Str(<<"anthropic">>) -> callAnthropic_recv(r)
      [] a.provider = Str(<<"deepseek">>) -> callDeepSeek_recv(r)
      [] a.provider = Str(<<"openrouter">>) -> callOpenRouter_recv(r)

\* catch (error) { return errorResponse(error.message, 500) }
Caught(d) == errorResponse(d.msg, 500)

\* POST from its entry to the call of dispatchToProvider, or to an earlier end
POST_validate(body) ==
    IF body.t = "invalid" THEN errorResponse(<<"Invalid JSON payload.">>, 400)
    ELSE IF Nullish(body)
    THEN Escape(<<"TypeError: Cannot read properties of null (reading 'provider')">>)
    ELSE IF ProviderMissing(body)
    THEN errorResponse(<<"Provider is required.">>, 400)
    ELSE IF ~Nullish(Member(body, "prompt")) /\ ~IsStr(Member(body, "prompt"))
    THEN Escape(<<"TypeError: body.prompt?.trim is not a function">>)
    ELSE IF PromptMissing(body)
    THEN errorResponse(<<"Prompt is required.">>, 400)
    ELSE [k |-> "dispatch", a |-> DispatchArgs(body)]

\* POST from its entry to its first suspension or its return
POST_begin(body, e) ==
    LET v == POST_validate(body) IN
    IF v.k # "dispatch" THEN v
    ELSE LET d == dispatchToProvider_send(v.a, e) IN
         IF d.k = "throw" THEN Caught(d) ELSE d

\* POST from the resolution of the fetch to its return
POST_end(a, r) ==
    LET d == dispatchToProvider_recv(a, r) IN
    IF d.k = "throw" THEN Caught(d)
    ELSE LET n == normalizeMarkdown(d.v) IN
         IF n.k = "throw" THEN Caught(n)
         ELSE Respond(200, [output |-> n.v])

\* POST when the fetch itself rejects (network failure)
POST_rejected == Caught(Throw(<<"fetch failed">>))

\* ----------------------------------------------------------- input sets
Chars == {" ", "a"}

\* every string of at most n tokens
Strings(n) == UNION {[1..k -> Chars] : k \in 0..n}

KeyNames == {"OPENAI_API_KEY", "GOOGLE_GEMINI_API_KEY", "ANTHROPIC_API_KEY",
             "DEEPSEEK_API_KEY", "OPENROUTER_API_KEY"}

\* process.env: every key is configured or not, and the keys that are not
\* configured are all absent or all set to the empty string
Environments ==
    [KeyNames -> {Undef, Str(<<"sk-1">>)}] \cup [KeyNames -> {Str(<<>>), Str(<<"sk-1">>)}]

ProviderVals ==
    {Undef, Null, Str(<<>>), Str(<<"mistral">>)}
        \cup {Str(<<p>>) : p \in ProviderKey}

PromptVals == {Undef, Null, Num(<<"7">>)} \cup {Str(s) : s \in Strings(MaxLen)}

ModelVals == {Undef, Str(<<>>), Str(<<" ">>), Str(<<"my-model">>)}

ModeVals == {Undef, Null, Str(<<"composer">>), Str(<<"cli">>), Str(<<"debug">>)}

\* what request.json() can yield: a parse failure, or any JSON value
Bodies ==
    {[t |-> "invalid"], Null, Num(<<"7">>)}
        \cup [t : {"object"}, provider : ProviderVals, model : ModelVals,
              prompt : PromptVals, mode : ModeVals]

\* well-formed requests, one per provider
AdapterBodies ==
    [t : {"object"}, provider : {Str(<<p>>) : p \in ProviderKey}, model : {Undef},
     prompt : {Str(<<"a">>)}, mode : {Undef}]

\* the text of one choice, block or part: missing, null, not a string, blank,
\* or text with white space around it
TextVals ==
    {Undef, Null, Num(<<"7">>), Str(<<>>), Str(<<" ">>), Str(<<"a">>), Str(<<" ", "b", " ">>)}

ItemVals ==
    {Undef} \cup {Arr(s) : s \in UNION {[1..k -> TextVals] : k \in 0..MaxItems}}

ErrorVals ==
    {Undef, Str(<<"denied">>)}
        \cup [t : {"object"},
              message : {Undef, Null, Str(<<>>), Str(<<"quota exceeded">>), Num(<<"7">>)}]

\* what a provider can answer
Replies ==
    {r \in [ok : BOOLEAN, json : {"invalid", "null", "object"},
            error : ErrorVals, items : ItemVals] :
        r.json # "object" => r.error = Undef /\ r.items = Undef}

\* one reply per branch of an adapter
CoarseReplies ==
    {[ok |-> TRUE, json |-> "object", error |-> Undef, items |-> Arr(<<Str(<<"a">>)>>)],
     [ok |-> FALSE, json |-> "invalid", error |-> Undef, items |-> Undef],
     [ok |-> FALSE, json |-> "object",
      error |-> [t |-> "object", message |-> Str(<<"quota exceeded">>)],
      items |-> Arr(<<Str(<<"a">>)>>)]}


\* ------------------------------------------------------------- the page
\* providerCatalog: each provider's default model and model list
providerCatalog ==
    [openai |-> [defaultModel |-> "gpt-4.1-mini",
                 models |-> {"gpt-4.1-mini", "gpt-4.1", "gpt-4o-mini", "gpt-3.5-turbo"}],
     gemini |-> [defaultModel |-> "gemini-1.5-pro-latest",
                 models |-> {"gemini-1.5-pro-latest", "gemini-1.5-flash-latest"}],
     anthropic |-> [defaultModel |-> "claude-3-5-sonnet-20240620",
                    models |-> {"claude-3-5-sonnet-20240620", "claude-3-opus-20240229",
                                "claude-3-haiku-20240307"}],
     deepseek |-> [defaultModel |-> "deepseek-coder",
                   models |-> {"deepseek-chat", "deepseek-coder", "deepseek-reasoner"}],
     openrouter |-> [defaultModel |-> "google/gemini-flash-1.5",
                     models |-> {"google/gemini-flash-1.5",
                                 "meta-llama/llama-3.1-70b-instruct",
                                 "anthropic/claude-3.5-sonnet",
                                 "mistralai/mixtral-8x7b-instruct"}]]

defaultPrompt == <<"You are an elite full-stack engineer ...">>

cliBootMessage == <<"Agentic CLI initialized. ...">>

\* the first cliHistory entry; createId() is the entry's position, the
\* timestamp is left out
BootEntry ==
    [id |-> 1, type |-> "system", provider |-> "openai", text |-> cliBootMessage,
     of |-> 0]

\* /react/i.test(output): some run of characters holds "react" in any case
MatchesReact(text) ==
    \E i \in 1..Len(text) : text[i] \in {"React", "react", "REACT"}

\* markdownToHtml(markdown), when the pipeline succeeds
markdownToHtml(markdown) == <<"<p>">> \o markdown \o <<"</p>">>

\* the prompt handleCliSubmit builds around the command
CliPrompt(command) ==
    <<"You are an interactive AI CLI for a unified web app builder. ... Command:\n">>
        \o command

\* the state after the first render and its effects
PageInit ==
    /\ pageProvider = "openai"
    /\ pageModel = providerCatalog["openai"].defaultModel
    /\ pagePrompt = defaultPrompt
    /\ loading = FALSE
    /\ output = <<>>
    /\ cliHistory = <<BootEntry>>
    /\ cliInput = <<>>
    /\ reactPreviewReady = FALSE
    /\ isPreviewActive = FALSE
    /\ error = Null
    /\ requests = <<>>
    /\ lastEvent = "other"

\* ------------------------------------------------------- state machine
None == [t |-> "none"]

\* the environment is fixed when the server starts; no request has arrived
Init ==
    /\ env \in Environments
    /\ pc = "idle"
    /\ req = None
    /\ args = None
    /\ calls = <<>>
    /\ reply = None
    /\ res = None
    /\ PageInit

\* every key configured
InitAdapters ==
    /\ env = [n \in KeyNames |-> Str(<<"sk-1">>)]
    /\ pc = "idle"
    /\ req = None
    /\ args = None
    /\ calls = <<>>
    /\ reply = None
    /\ res = None
    /\ PageInit

\* a POST arrives and runs to its fetch or to its end
Receive(B) ==
    /\ pc = "idle"
    /\ \E body \in B :
           LET v == POST_validate(body)
               c == POST_begin(body, env)
           IN
           /\ req' = body
           /\ args' = IF v.k = "dispatch" THEN v.a ELSE args
           /\ IF c.k = "fetch"
              THEN /\ pc' = "awaiting"
                   /\ calls' = Append(calls, c.call)
                   /\ res' = res
              ELSE /\ pc' = "done"
                   /\ res' = c
                   /\ calls' = calls
    /\ UNCHANGED <<env, reply>>
    /\ UNCHANGED pageVars

\* the provider answers and POST runs to its end
ProviderReplies(R) ==
    /\ pc = "awaiting"
    /\ \E r \in R :
           /\ reply' = r
           /\ res' = POST_end(args, r)
    /\ pc' = "done"
    /\ UNCHANGED <<env, req, args, calls>>
    /\ UNCHANGED pageVars

\* variant: a failed fetch is issued once more
NetworkError_retry ==
    /\ pc = "awaiting"
    /\ IF Len(calls) < 2
       THEN /\ calls' = Append(calls, calls[1])
            /\ UNCHANGED <<pc, reply, res>>
       ELSE /\ reply' = [t |-> "rejected"]
            /\ res' = POST_rejected
            /\ pc' = "done"
            /\ calls' = calls
    /\ UNCHANGED <<env, req, args>>
    /\ UNCHANGED pageVars

\* the fetch fails without an answer and POST runs to its end
NetworkError ==
    /\ pc = "awaiting"
    /\ reply' = [t |-> "rejected"]
    /\ res' = POST_rejected
    /\ pc' = "done"
    /\ UNCHANGED <<env, req, args, calls>>
    /\ UNCHANGED pageVars

\* the invocation is over; the next one shares nothing with it but env
NextRequest ==
    /\ pc = "done"
    /\ pc' = "idle"
    /\ req' = None
    /\ args' = None
    /\ calls' = <<>>
    /\ reply' = None
    /\ res' = None
    /\ UNCHANGED env
    /\ UNCHANGED pageVars

Next ==
    \/ Receive(Bodies)
    \/ ProviderReplies(CoarseReplies)
    \/ NetworkError
    \/ NextRequest

Spec == Init /\ [][Next]_vars

\* the adapters under every reply shape, for well-formed requests
NextAdapters ==
    \/ Receive(AdapterBodies)
    \/ ProviderReplies(Replies)
    \/ NetworkError
    \/ NextRequest

SpecAdapters == InitAdapters /\ [][NextAdapters]_vars

\* ---------------------------------------------------- the page's handlers
\* what the page's fetch of /api/llm can yield: no answer, or a status with a
\* body that parses or not
PageReplies ==
    {[k |-> "rejected"],
     [k |-> "http", ok |-> TRUE, json |-> "object",
      body |-> [output |-> <<"React", " ", "app">>]],
     [k |-> "http", ok |-> TRUE, json |-> "object",
      body |-> [output |-> <<"Vue", " ", "app">>]],
     [k |-> "http", ok |-> FALSE, json |-> "object",
      body |-> [error |-> Str(<<"Prompt is required.">>)]],
     [k |-> "http", ok |-> FALSE, json |-> "invalid", body |-> [error |-> Undef]]}

PagePrompts == {defaultPrompt, <<>>}

\* the provider buttons the user presses
PageProviders == {"openai", "deepseek"}

\* the options the user picks in the model <select>
PageModels == {"gpt-4.1", "deepseek-chat"}

CliInputs == {<<>>, <<" ">>, <<" ", "deploy">>}

\* executeRequest's try block from the resolution of fetch: the output, or
\* the message of the error it throws
Settled(r) ==
    IF r.k = "rejected" THEN [ok |-> FALSE, message |-> <<"Failed to fetch">>]
    ELSE IF ~r.ok
    THEN [ok |-> FALSE,
          message |-> StringOf(Coalesce(IF r.json = "invalid" THEN Undef ELSE r.body.error,
                                        Str(<<"Internal Server Error">>)))]
    ELSE IF r.json = "invalid"
    THEN [ok |-> FALSE, message |-> <<"SyntaxError: Unexpected token in JSON">>]
    ELSE [ok |-> TRUE, output |-> r.body.output]

\* body: JSON.stringify({provider, model, prompt: payload.prompt, mode: payload.mode}),
\* with the command entry the caller awaits the result for (0: none)
NewRequest(payload) ==
    [provider |-> pageProvider, model |-> pageModel, prompt |-> payload.prompt,
     mode |-> payload.mode, entry |-> payload.entry,
     status |-> "pending", result |-> <<>>, html |-> "none"]

\* executeRequest up to its fetch
executeRequest_start(payload) ==
    /\ loading' = TRUE
    /\ error' = Null
    /\ requests' = Append(requests, NewRequest(payload))

\* the effect on [output], run when a render changed output
OutputEffect(newOutput) ==
    IF newOutput = output
    THEN UNCHANGED <<reactPreviewReady, isPreviewActive>>
    ELSE IF newOutput # <<>>
    THEN /\ reactPreviewReady' = MatchesReact(newOutput)
         /\ isPreviewActive' = isPreviewActive
    ELSE /\ reactPreviewReady' = FALSE
         /\ isPreviewActive' = FALSE

\* if (response): the caller goes on to markdownToHtml
AwaitsHtml(r, response) == r.entry # 0 /\ response # <<>>

\* executeRequest from the resolution of its fetch to its return, the render
\* that follows, and handleCliSubmit's test of the result
executeRequest_settle(R) ==
    \E i \in 1..Len(requests), r \in R :
        LET s == Settled(r)
            response == IF s.ok THEN s.output ELSE <<>>
        IN
        /\ requests[i].status = "pending"
        /\ output' = response
        /\ error' = IF s.ok THEN error ELSE Str(s.message)
        /\ loading' = FALSE
        /\ OutputEffect(response)
        /\ requests' =
               [requests EXCEPT ![i].status = IF s.ok THEN "ok" ELSE "failed",
                                ![i].result = response,
                                ![i].html = IF AwaitsHtml(requests[i], response)
                                            THEN "pending" ELSE "none"]
        /\ lastEvent' = "other"
        /\ UNCHANGED <<routeVars, pageProvider, pageModel, pagePrompt, cliHistory, cliInput>>

\* handleComposerRun; its button is disabled while loading
handleComposerRun ==
    /\ ~loading
    /\ Len(requests) < MaxRequests
    /\ executeRequest_start([prompt |-> pagePrompt, mode |-> "composer", entry |-> 0])
    /\ lastEvent' = "other"
    /\ UNCHANGED <<routeVars, pageProvider, pageModel, pagePrompt, output, cliHistory, cliInput,
                   reactPreviewReady, isPreviewActive>>

CliBlank_untrimmed(input) == input = <<>>

\* if (!cliInput.trim()) return
CliBlank(input) == Trim(input) = <<>>

\* commandEntry
CommandEntry(input) ==
    [id |-> Len(cliHistory) + 1, type |-> "command", provider |-> pageProvider,
     text |-> Trim(input), of |-> Len(requests) + 1]

\* handleCliSubmit up to its await of executeRequest
handleCliSubmit ==
    /\ IF CliBlank(cliInput)
       THEN /\ lastEvent' = "blank submit"
            /\ UNCHANGED <<loading, error, requests, cliHistory, cliInput>>
       ELSE /\ Len(requests) < MaxRequests
            /\ cliHistory' = Append(cliHistory, CommandEntry(cliInput))
            /\ cliInput' = <<>>
            /\ executeRequest_start([prompt |-> CliPrompt(Trim(cliInput)), mode |-> "cli",
                                     entry |-> Len(cliHistory) + 1])
            /\ lastEvent' = "other"
    /\ UNCHANGED <<routeVars, pageProvider, pageModel, pagePrompt, output,
                   reactPreviewReady, isPreviewActive>>

ResponseEntry_currentProvider(i) ==
    [id |-> Len(cliHistory) + 1, type |-> "response", provider |-> pageProvider,
     text |-> markdownToHtml(requests[i].result), of |-> i]

\* responseEntry: the provider is the one handleCliSubmit's closure captured
ResponseEntry(i) ==
    [id |-> Len(cliHistory) + 1, type |-> "response", provider |-> requests[i].provider,
     text |-> markdownToHtml(requests[i].result), of |-> i]

\* handleCliSubmit from the resolution of markdownToHtml
handleCliSubmit_append ==
    \E i \in 1..Len(requests) :
        /\ requests[i].html = "pending"
        /\ cliHistory' = Append(cliHistory, ResponseEntry(i))
        /\ requests' = [requests EXCEPT ![i].html = "done"]
        /\ lastEvent' = "other"
        /\ UNCHANGED <<routeVars, pageProvider, pageModel, pagePrompt, loading, output, cliInput,
                       reactPreviewReady, isPreviewActive, error>>

\* markdownToHtml rejects (a module of the pipeline fails to load)
handleCliSubmit_rejected ==
    \E i \in 1..Len(requests) :
        /\ requests[i].html = "pending"
        /\ requests' = [requests EXCEPT ![i].html = "failed"]
        /\ lastEvent' = "other"
        /\ UNCHANGED <<routeVars, pageProvider, pageModel, pagePrompt, loading, output, cliHistory,
                       cliInput, reactPreviewReady, isPreviewActive, error>>

handleProviderChange_keepModel ==
    \E key \in PageProviders :
        /\ pageProvider' = key
        /\ lastEvent' = "other"
        /\ UNCHANGED <<routeVars, pageModel, pagePrompt, loading, output, cliHistory, cliInput,
                       reactPreviewReady, isPreviewActive, error, requests>>

\* handleProviderChange(option), option one of the catalog's buttons
handleProviderChange ==
    \E key \in PageProviders :
        /\ pageProvider' = key
        /\ pageModel' = providerCatalog[key].defaultModel
        /\ lastEvent' = "other"
        /\ UNCHANGED <<routeVars, pagePrompt, loading, output, cliHistory, cliInput,
                       reactPreviewReady, isPreviewActive, error, requests>>

\* the <select> offers activeProvider.models; onChange sets the model
setModel ==
    \E m \in providerCatalog[pageProvider].models \cap PageModels :
        /\ pageModel' = m
        /\ lastEvent' = "other"
        /\ UNCHANGED <<routeVars, pageProvider, pagePrompt, loading, output, cliHistory, cliInput,
                       reactPreviewReady, isPreviewActive, error, requests>>

\* the composer's textarea
setPrompt(V) ==
    \E v \in V :
        /\ pagePrompt' = v
        /\ lastEvent' = "other"
        /\ UNCHANGED <<routeVars, pageProvider, pageModel, loading, output, cliHistory, cliInput,
                       reactPreviewReady, isPreviewActive, error, requests>>

\* the CLI's input
setCliInput(V) ==
    \E v \in V :
        /\ cliInput' = v
        /\ lastEvent' = "other"
        /\ UNCHANGED <<routeVars, pageProvider, pageModel, pagePrompt, loading, output, cliHistory,
                       reactPreviewReady, isPreviewActive, error, requests>>

\* handleActivatePreview; its button is disabled unless reactPreviewReady
handleActivatePreview ==
    /\ reactPreviewReady
    /\ isPreviewActive' = (~isPreviewActive /\ reactPreviewReady)
    /\ lastEvent' = "other"
    /\ UNCHANGED <<routeVars, pageProvider, pageModel, pagePrompt, loading, output, cliHistory,
                   cliInput, reactPreviewReady, error, requests>>

\* the page alone, against every answer of /api/llm
InitPage ==
    /\ env = [n \in KeyNames |-> Str(<<"sk-1">>)]
    /\ pc = "idle"
    /\ req = None
    /\ args = None
    /\ calls = <<>>
    /\ reply = None
    /\ res = None
    /\ PageInit

NextPage ==
    \/ handleComposerRun
    \/ handleCliSubmit
    \/ executeRequest_settle(PageReplies)
    \/ handleCliSubmit_append
    \/ handleCliSubmit_rejected
    \/ handleProviderChange
    \/ setModel
    \/ setPrompt(PagePrompts)
    \/ setCliInput(CliInputs)
    \/ handleActivatePreview

SpecPage == InitPage /\ [][NextPage]_vars

\* ================================================================ claims
KnownProviders == {Str(<<p>>) : p \in ProviderKey}

\* the request is a JSON object
IsRecord(b) == b.t = "object"

\* non-empty after trimming
NonBlank(x) == IsStr(x) /\ Trim(x.v) # <<>>

\* the last message of an outbound call carries the user's prompt
UserContent(call) == call.messages[Len(call.messages)].content

\* the call carries prompt p as its user text (alone, or after the system
\* prompt and the "User Prompt:" separator in the single-part shape)
Forwards(call, p) ==
    \/ UserContent(call) = Str(p)
    \/ \E sys \in {ComposerTemplate, CliTemplate, <<"undefined">>} :
           UserContent(call) = Str(sys \o <<"\n\nUser Prompt:\n">> \o p)

\* C1: a request whose provider is absent, null or empty is answered 400
\* {error: "Provider is required."} whatever its prompt, model and mode, and
\* no outbound call is made.
C1_MissingProviderRejected ==
    (pc # "idle" /\ IsRecord(req) /\ req.provider \in {Undef, Null, Str(<<>>)})
        => /\ pc = "done"
           /\ res = Respond(400, [error |-> Str(<<"Provider is required.">>)])
           /\ calls = <<>>

C1_Witness ==
    /\ pc = "done"
    /\ IsRecord(req)
    /\ req.provider = Null
    /\ req.prompt = Str(<<"a">>)
    /\ req.mode = Str(<<"cli">>)
    /\ res.status = 400

\* C2: with a provider present, a prompt that is absent, empty or white space
\* only is answered 400 {error: "Prompt is required."} without an outbound
\* call; a prompt that is non-empty after trimming is never answered so, and
\* an outbound call carries it trimmed.
C2_BlankPromptRejected ==
    /\ (pc # "idle" /\ IsRecord(req) /\ ~Falsy(req.provider)
            /\ (Nullish(req.prompt) \/ (IsStr(req.prompt) /\ Trim(req.prompt.v) = <<>>)))
         => /\ pc = "done"
            /\ res = Respond(400, [error |-> Str(<<"Prompt is required.">>)])
            /\ calls = <<>>
    /\ (pc # "idle" /\ IsRecord(req) /\ ~Falsy(req.provider) /\ NonBlank(req.prompt))
         => /\ res # Respond(400, [error |-> Str(<<"Prompt is required.">>)])
            /\ args # None /\ args.prompt = Str(Trim(req.prompt.v))
            /\ \A i \in 1..Len(calls) : Forwards(calls[i], Trim(req.prompt.v))

C2_Witness ==
    /\ pc = "awaiting"
    /\ req.prompt = Str(<<" ", "a">>)
    /\ Len(calls) = 1
    /\ Forwards(calls[1], <<"a">>)

\* C3: with a non-blank prompt, a non-empty provider other than the five is
\* answered 500 {error: "Unsupported provider: <value>"} without an outbound call.
C3_UnknownProviderRejected ==
    (pc # "idle" /\ IsRecord(req) /\ NonBlank(req.prompt)
        /\ ~Falsy(req.provider) /\ req.provider \notin KnownProviders)
        => /\ pc = "done"
           /\ res = Respond(500, [error |-> Str(<<"Unsupported provider: ">>
                                                 \o StringOf(req.provider))])
           /\ calls = <<>>

C3_Witness ==
    /\ pc = "done"
    /\ IsRecord(req)
    /\ req.provider = Str(<<"mistral">>)
    /\ req.prompt = Str(<<"a", " ">>)
    /\ res = Respond(500, [error |-> Str(<<"Unsupported provider: ", "mistral">>)])

\* the reply a provider gave (not a failed fetch)
Answered == pc = "done" /\ reply \notin {None, [t |-> "rejected"]}

\* the reply text at the place the provider's adapter reads it: the first
\* choice's message content, the first content block's text, or the texts of
\* the first candidate's parts
ReplyTextAt(provider, r) ==
    IF r.json # "object" \/ Nullish(r.items) THEN Undef
    ELSE IF provider = Str(<<"gemini">>) THEN Str(JoinParts(r.items.v))
    ELSE FirstItem(r.items)

\* missing, null, empty or white space only
BlankText(x) == Nullish(x) \/ (IsStr(x) /\ Trim(x.v) = <<>>)

\* C4 (as claimed): for each of the five providers, a 2xx reply whose text is
\* missing, null, empty or white space only is answered 200 with the
\* placeholder as output.
C4_BlankReplyIsPlaceholder ==
    (Answered /\ reply.ok /\ reply.json # "invalid"
        /\ BlankText(ReplyTextAt(args.provider, reply)))
        => res = Respond(200, [output |-> Str(Placeholder)])

\* the result has one of the two shapes of the endpoint's contract
WellShaped(r) ==
    /\ r.k = "response"
    /\ \/ /\ r.status = 200
          /\ DOMAIN r.body = {"output"}
          /\ NonBlank(r.body.output)
       \/ /\ r.status \in {400, 500}
          /\ DOMAIN r.body = {"error"}

\* C5 (as claimed): every POST whose body parses as JSON ends with status 200
\* and only `output`, a string non-empty after trimming, or with status 400 or
\* 500 and only `error`; no exception leaves the handler.
C5_OutputOrError ==
    (pc = "done" /\ req.t # "invalid") => WellShaped(res)

\* the endpoint each provider is called at
EndpointOf(provider) ==
    CASE provider = Str(<<"openai">>) -> "https://api.openai.com/v1/chat/completions"
      [] provider = Str(<<"gemini">>) ->
             "https://generativelanguage.googleapis.com/v1beta/models/"
      [] provider = Str(<<"anthropic">>) -> "https://api.anthropic.com/v1/messages"
      [] provider = Str(<<"deepseek">>) -> "https://api.deepseek.com/v1/chat/completions"
      [] provider = Str(<<"openrouter">>) -> "https://openrouter.ai/api/v1/chat/completions"

\* the environment variable each provider's key is read from
KeyOf(provider) ==
    CASE provider = Str(<<"openai">>) -> "OPENAI_API_KEY"
      [] provider = Str(<<"gemini">>) -> "GOOGLE_GEMINI_API_KEY"
      [] provider = Str(<<"anthropic">>) -> "ANTHROPIC_API_KEY"
      [] provider = Str(<<"deepseek">>) -> "DEEPSEEK_API_KEY"
      [] provider = Str(<<"openrouter">>) -> "OPENROUTER_API_KEY"

\* validation passes and the provider is one of the five
ValidRequest(b) ==
    IsRecord(b) /\ b.provider \in KnownProviders /\ NonBlank(b.prompt)

Configured(e, provider) == e[KeyOf(provider)] \notin {Undef, Str(<<>>)}

\* C6: a POST causes at most one outbound call, and exactly one when
\* validation passes, the provider is one of the five and its key is
\* configured; the call goes to the requested provider's endpoint, and a
\* failed call is neither repeated nor followed by a call to another provider.
C6_OneOutboundCall ==
    /\ Len(calls) <= 1
    /\ (pc # "idle" /\ ValidRequest(req) /\ Configured(env, req.provider))
         => Len(calls) = 1
    /\ \A i \in 1..Len(calls) :
         /\ req.provider \in KnownProviders
         /\ Head(calls[i].url) = EndpointOf(req.provider)

C6_Witness ==
    /\ pc = "done"
    /\ ValidRequest(req)
    /\ req.provider = Str(<<"deepseek">>)
    /\ reply = [t |-> "rejected"]
    /\ res = Respond(500, [error |-> Str(<<"fetch failed">>)])
    /\ Len(calls) = 1
    /\ Head(calls[1].url) = "https://api.deepseek.com/v1/chat/completions"

NotConfiguredMessage(provider) ==
    CASE provider = Str(<<"openai">>) -> <<"OPENAI_API_KEY is not configured.">>
      [] provider = Str(<<"gemini">>) -> <<"GOOGLE_GEMINI_API_KEY is not configured.">>
      [] provider = Str(<<"anthropic">>) -> <<"ANTHROPIC_API_KEY is not configured.">>
      [] provider = Str(<<"deepseek">>) -> <<"DEEPSEEK_API_KEY is not configured.">>
      [] provider = Str(<<"openrouter">>) -> <<"OPENROUTER_API_KEY is not configured.">>

\* C7: a valid request to one of the five providers whose key is not
\* configured is answered 500 {error: "<KEY_NAME> is not configured."} without
\* an outbound call, whatever the other four keys are.
C7_MissingKeyRejected ==
    (pc # "idle" /\ ValidRequest(req) /\ ~Configured(env, req.provider))
        => /\ pc = "done"
           /\ res = Respond(500, [error |-> Str(NotConfiguredMessage(req.provider))])
           /\ calls = <<>>

C7_Witness ==
    /\ pc = "done"
    /\ ValidRequest(req)
    /\ req.provider = Str(<<"deepseek">>)
    /\ env["DEEPSEEK_API_KEY"] = Str(<<>>)
    /\ \A n \in KeyNames \ {"DEEPSEEK_API_KEY"} : env[n] = Str(<<"sk-1">>)
    /\ res = Respond(500, [error |-> Str(<<"DEEPSEEK_API_KEY is not configured.">>)])

GenericFailure(provider) ==
    CASE provider = Str(<<"openai">>) -> <<"OpenAI request failed.">>
      [] provider = Str(<<"gemini">>) -> <<"Gemini request failed.">>
      [] provider = Str(<<"anthropic">>) -> <<"Anthropic request failed.">>
      [] provider = Str(<<"deepseek">>) -> <<"DeepSeek request failed.">>
      [] provider = Str(<<"openrouter">>) -> <<"OpenRouter request failed.">>

\* the error envelope's message, when the reply carries one
EnvelopeMessage(r) ==
    IF r.json = "object" /\ r.error.t = "object" THEN r.error.message ELSE Undef

\* C8 (as claimed): a non-2xx reply is answered 500 with the envelope's
\* error.message when it carries one and with "<Provider> request failed."
\* otherwise, and never with an output.
C8_ProviderFailureMessage ==
    (Answered /\ ~reply.ok)
        => res = Respond(500,
                   [error |-> IF Nullish(EnvelopeMessage(reply))
                              THEN Str(GenericFailure(args.provider))
                              ELSE Str(StringOf(EnvelopeMessage(reply)))])

\* C9: the model of the outbound call is the provider's default when the
\* request names none (absent or empty) and the request's model otherwise.
C9_ModelDefault ==
    \A i \in 1..Len(calls) :
        LET expected == IF req.model \in {Undef, Str(<<>>)}
                        THEN providerBaselines(req.provider)
                        ELSE req.model
        IN /\ calls[i].model = expected
           /\ IsStr(expected)
           /\ req.provider = Str(<<"gemini">>) => calls[i].url[2] = expected.v[1]

C9_Witness ==
    /\ pc = "awaiting"
    /\ req.provider = Str(<<"gemini">>)
    /\ req.model = Str(<<>>)
    /\ req.mode = Str(<<"cli">>)
    /\ calls[1].model = Str(<<"gemini-1.5-pro-latest">>)

\* C10 (as claimed): every request that reaches dispatch carries one of the
\* two canned templates: the composer template when mode is absent or
\* "composer", the cli template when mode is "cli", and never a missing or
\* other system prompt whatever the mode field holds.
C10_SystemPromptByMode ==
    args # None
        => /\ req.mode \in {Undef, Str(<<"composer">>)}
                => args.systemPrompt = Str(ComposerTemplate)
           /\ req.mode = Str(<<"cli">>) => args.systemPrompt = Str(CliTemplate)
           /\ args.systemPrompt \in {Str(ComposerTemplate), Str(CliTemplate)}

\* the first text field of the reply: the first choice's message content, the
\* first content block's text, the first part's text of the first candidate
FirstTextField(r) ==
    IF r.json # "object" \/ Nullish(r.items) \/ r.items.v = <<>> THEN Undef
    ELSE r.items.v[1]

\* the text of one part as it is joined: nothing for a missing or null text
PartText(x) == IF Nullish(x) THEN <<>> ELSE x.v

\* the texts of parts 1..n, one per line
RECURSIVE PartsUpTo(_, _)
PartsUpTo(parts, n) ==
    IF n = 0 THEN <<>>
    ELSE IF n = 1 THEN PartText(parts[1])
    ELSE PartsUpTo(parts, n - 1) \o <<"\n">> \o PartText(parts[n])

\* a 2xx reply whose first text field is non-blank
TextReply == Answered /\ reply.ok /\ NonBlank(FirstTextField(reply))

\* C11 (as claimed): for each of the five providers, a 2xx reply with
\* non-blank text is answered with exactly the first text field, trimmed, and
\* nothing from later choices, blocks or parts.
C11_FirstTextOnly ==
    TextReply
        => res = Respond(200, [output |-> Str(Trim(FirstTextField(reply).v))])

\* C11 (amended): as claimed for openai, deepseek, openrouter and anthropic;
\* for gemini the output is the texts of all parts of the first candidate,
\* one per line, trimmed.
C11_FirstTextOrAllParts ==
    TextReply
        => res = Respond(200,
                   [output |->
                       IF args.provider = Str(<<"gemini">>)
                       THEN Str(Trim(PartsUpTo(reply.items.v, Len(reply.items.v))))
                       ELSE Str(Trim(FirstTextField(reply).v))])

C11_Witness ==
    /\ Answered
    /\ args.provider = Str(<<"gemini">>)
    /\ reply.ok
    /\ reply.json = "object"
    /\ reply.items = Arr(<<Str(<<" ", "b", " ">>), Str(<<"a">>)>>)
    /\ res = Respond(200, [output |-> Str(<<"b", " ", "\n", "a">>)])


\* ---------------------------------------------------------- page claims
\* the command typed in the CLI is empty or white space only
BlankCommand == \A i \in 1..Len(cliInput) : cliInput[i] \in White

\* the step issues exactly one request, carrying the provider and the model
\* selected when it is taken
IssuesOne ==
    /\ Len(requests') = Len(requests) + 1
    /\ SubSeq(requests', 1, Len(requests)) = requests
    /\ requests'[Len(requests')].provider = pageProvider
    /\ requests'[Len(requests')].model = pageModel
    /\ requests'[Len(requests')].status = "pending"

\* the step is a composer run: the request has mode "composer" and the CLI is
\* left alone
IsComposerRun ==
    /\ requests'[Len(requests')].mode = "composer"
    /\ requests'[Len(requests')].prompt = pagePrompt
    /\ UNCHANGED <<cliHistory, cliInput>>

\* the step is a CLI submission of a non-blank command: one command entry is
\* appended, the input is cleared and the request has mode "cli"
IsCliSubmit ==
    /\ ~BlankCommand
    /\ requests'[Len(requests')].mode = "cli"
    /\ Len(cliHistory') = Len(cliHistory) + 1
    /\ SubSeq(cliHistory', 1, Len(cliHistory)) = cliHistory
    /\ cliHistory'[Len(cliHistory')].type = "command"
    /\ cliHistory'[Len(cliHistory')].text = Trim(cliInput)
    /\ cliHistory'[Len(cliHistory')].provider = pageProvider
    /\ cliInput' = <<>>

\* C12: every step of the page that issues a request issues exactly one, with
\* the provider and model selected at that moment; it is either a composer run
\* (mode "composer") or the submission of a non-blank command (mode "cli", one
\* command entry appended, input cleared); no other step touches the requests,
\* and the submission of a blank command issues none and leaves cliHistory,
\* cliInput, loading, output and error as they were
C12_OneRequestPerRun ==
    [][/\ Len(requests') # Len(requests) => IssuesOne /\ (IsComposerRun \/ IsCliSubmit)
       /\ Len(requests') = Len(requests) =>
              \A i \in 1..Len(requests) :
                  /\ requests'[i].provider = requests[i].provider
                  /\ requests'[i].model = requests[i].model
                  /\ requests'[i].mode = requests[i].mode
       /\ lastEvent' = "blank submit" =>
              /\ BlankCommand
              /\ UNCHANGED <<cliHistory, cliInput, loading, output, error, requests>>
       /\ BlankCommand /\ Len(requests') # Len(requests) => IsComposerRun]_vars

\* a composer run and a command submitted under another provider and model,
\* then a blank submission
C12_Witness ==
    /\ Len(requests) = 2
    /\ requests[1].mode = "composer"
    /\ requests[1].provider = "openai"
    /\ requests[1].model = "gpt-4.1"
    /\ requests[2].mode = "cli"
    /\ requests[2].provider = "deepseek"
    /\ requests[2].model = "deepseek-coder"
    /\ cliHistory[requests[2].entry].text = <<"deploy">>
    /\ cliInput = <<" ">>
    /\ lastEvent = "blank submit"

\* the requests whose fetch has not been answered yet
InFlight == {i \in 1..Len(requests) : requests[i].status = "pending"}

\* C13: once no request is in flight, the page never shows an error together
\* with a non-empty output
C13_ErrorNotBesideOutput ==
    InFlight = {} => ~(error # Null /\ output # <<>>)

\* C14: loading is true exactly when at least one request is in flight
C14_LoadingIffInFlight ==
    loading <=> InFlight # {}

\* C15: the preview is active only while the output is ready for it
C15_ActiveImpliesReady ==
    isPreviewActive => reactPreviewReady /\ output # <<>> /\ MatchesReact(output)

\* the positions of cliHistory holding an entry of the given type
EntriesOf(type) == {k \in 1..Len(cliHistory) : cliHistory[k].type = type}

\* the entry at k answers the command at j: same submit, later position, the
\* command's provider, and a request that succeeded with a non-empty result
Answers(k, j) ==
    /\ j < k
    /\ cliHistory[j].type = "command"
    /\ cliHistory[k].of = cliHistory[j].of
    /\ cliHistory[k].provider = cliHistory[j].provider
    /\ cliHistory[k].of \in 1..Len(requests)
    /\ requests[cliHistory[k].of].entry = j
    /\ requests[cliHistory[k].of].status = "ok"
    /\ requests[cliHistory[k].of].result # <<>>

CliHistoryWellFormed ==
    /\ Len(cliHistory) >= 1
    /\ cliHistory[1].type = "system"
    /\ cliHistory[1].text = cliBootMessage
    /\ EntriesOf("system") = {1}
    /\ \A k \in EntriesOf("response") : \E j \in EntriesOf("command") : Answers(k, j)
    /\ \A k, l \in EntriesOf("response") : cliHistory[k].of = cliHistory[l].of => k = l
    /\ Cardinality(EntriesOf("response")) <= Cardinality(EntriesOf("command"))

CliHistoryGrows ==
    /\ Len(cliHistory') >= Len(cliHistory)
    /\ SubSeq(cliHistory', 1, Len(cliHistory)) = cliHistory

\* C16: cliHistory starts with the boot message and only grows at its end;
\* every response entry follows the command entry of its own submit and has
\* that command's provider; responses never outnumber commands; a submit
\* whose request failed or came back empty has no response entry
C16_CliHistoryAppendOnly ==
    []CliHistoryWellFormed /\ [][CliHistoryGrows]_vars

\* a command that failed and has no response, then a command answered after
\* the user moved to another provider
C16_Witness ==
    /\ Len(requests) = 2
    /\ requests[1].mode = "cli"
    /\ requests[1].status = "failed"
    /\ requests[2].mode = "cli"
    /\ requests[2].status = "ok"
    /\ Len(cliHistory) = 4
    /\ cliHistory[4].type = "response"
    /\ cliHistory[4].of = 2
    /\ cliHistory[4].provider = "openai"
    /\ pageProvider = "deepseek"

\* the pair is a provider of the catalog with one of its models
InCatalog(p, m) == p \in DOMAIN providerCatalog /\ m \in providerCatalog[p].models

\* C17: the selected model is always one of the selected provider's models,
\* every request sent carries a pair of the catalog, and a step that changes
\* the provider sets the model to the new provider's default
C17_ModelInCatalog ==
    /\ [](/\ InCatalog(pageProvider, pageModel)
          /\ \A i \in 1..Len(requests) : InCatalog(requests[i].provider, requests[i].model))
    /\ [][pageProvider' # pageProvider =>
              pageModel' = providerCatalog[pageProvider'].defaultModel]_vars

\* the provider was changed while a request for another provider's model was
\* in flight, and a second request was sent for the new provider
C17_Witness ==
    /\ Len(requests) = 2
    /\ requests[1].status = "pending"
    /\ requests[1].provider = "openai"
    /\ requests[1].model = "gpt-4.1"
    /\ requests[2].provider = "deepseek"
    /\ requests[2].model = "deepseek-coder"
    /\ pageProvider = "deepseek"
    /\ pageModel = "deepseek-chat"

============================================================================
